---- MODULE Spec2Model ----
(***************************************************************************)
(* Model of the FastAPI backend in src/main.py: the three resource schemas *)
(* (BlogPost, PartnerLead, ContactMessage), the request handlers and the   *)
(* diagnostics endpoint, over a document store reached through the         *)
(* database module (create_document, get_documents, db).                   *)
(*                                                                         *)
(* Python values are tagged records: None, a str (a sequence of            *)
(* characters) and a list.  A dict (a JSON body, a stored document, a      *)
(* query string) is a function from its keys, so a missing key is a key    *)
(* outside the DOMAIN.                                                     *)
(***************************************************************************)
EXTENDS Integers, Sequences, FiniteSets, TLC

VARIABLES
    db,       \* the store handle imported from database: None or Handle
    env,      \* which of DATABASE_URL / DATABASE_NAME are set and non-empty
    store,    \* collection name -> sequence of stored documents
    req,      \* the request being answered
    resp,     \* the HTTP response to it
    calls     \* the adapter calls made while answering it

vars == <<db, env, store, req, resp, calls>>

(***************************** Python values ******************************)

None == [t |-> "none"]

Str(s) == [t |-> "str", s |-> s]

List(l) == [t |-> "list", l |-> l]

\* The string of n copies of character c.
Rep(c, n) == [i \in 1..n |-> c]

\* s[:n]
Take(s, n) == SubSeq(s, 1, IF Len(s) < n THEN Len(s) ELSE n)

\* d.get(k, default)
Get(d, k, default) == IF k \in DOMAIN d THEN d[k] ELSE default

\* Python truthiness of an Optional[str]: None and "" are falsy.
Truthy(v) == v.t = "str" /\ Len(v.s) > 0

EmptyDict == [k \in {} |-> None]

Handle == [t |-> "db"]

(************************** Field declarations ****************************)

TitleMax == 180

SlugMax == 200

ExcerptMax == 300

DefaultLimit == 10

CollCut == 10

ErrCut == 50

LangEn == Str(<<"e", "n">>)

LangFi == Str(<<"f", "i">>)

SourceWebsite == Str(<<"w", "e", "b", "s", "i", "t", "e">>)

\* A field annotated str.  The mutant also demands a character (min_length=1).
IsStrNonEmpty(v) == v.t = "str" /\ Len(v.s) > 0

IsStr(v) == v.t = "str"

\* A field annotated str with Field(..., max_length=cap): the mutant forgets the cap.
StrFieldNoCap(v, cap) == IsStr(v)

StrField(v, cap) == IsStr(v) /\ Len(v.s) <= cap

\* A field annotated Optional[str].
OptStr(v) == v.t = "none" \/ IsStr(v)

OptStrField(v, cap) == v.t = "none" \/ StrField(v, cap)

\* A field annotated List[str].
ListOfStr(v) == v.t = "list" /\ \A i \in 1..Len(v.l) : IsStr(v.l[i])

\* str.lower() on the characters the model uses.
Lower(c) == IF c = "B" THEN "b" ELSE c

\* EmailStr's syntax check: one "@", a non-empty local part, and a domain of
\* at least two non-empty dot-separated labels.
IsEmailSyntax(s) ==
    LET ats == {i \in 1..Len(s) : s[i] = "@"} IN
    /\ Cardinality(ats) = 1
    /\ LET a == CHOOSE i \in ats : TRUE
           local == SubSeq(s, 1, a - 1)
           dom == SubSeq(s, a + 1, Len(s))
       IN  /\ Len(local) > 0
           /\ local[1] # "." /\ local[Len(local)] # "."
           /\ Len(dom) > 0
           /\ dom[1] # "." /\ dom[Len(dom)] # "."
           /\ \E i \in 1..Len(dom) : dom[i] = "."
           /\ \A i \in 1..(Len(dom) - 1) : ~(dom[i] = "." /\ dom[i + 1] = ".")

\* A field annotated EmailStr.  The mutant is a field annotated str.
EmailFieldAsStr(v) == IsStr(v)

EmailField(v) == IsStr(v) /\ IsEmailSyntax(v.s)

\* The value an EmailStr field holds after validation: the domain lower-cased.
EmailValue(v) ==
    LET s == v.s IN
    Str([i \in 1..Len(s) |-> IF \E j \in 1..(i - 1) : s[j] = "@" THEN Lower(s[i]) ELSE s[i]])

(******************************* BlogPost *********************************)

BlogFields == {"title", "slug", "excerpt", "content", "cover_image", "tags", "lang"}

BlogFieldOk(f, kw) ==
    CASE f = "title" -> "title" \in DOMAIN kw /\ StrField(kw["title"], TitleMax)
      [] f = "slug" -> "slug" \in DOMAIN kw /\ StrField(kw["slug"], SlugMax)
      [] f = "excerpt" -> "excerpt" \in DOMAIN kw => OptStrField(kw["excerpt"], ExcerptMax)
      [] f = "content" -> "content" \in DOMAIN kw /\ IsStr(kw["content"])
      [] f = "cover_image" -> "cover_image" \in DOMAIN kw => OptStr(kw["cover_image"])
      [] f = "tags" -> "tags" \in DOMAIN kw => ListOfStr(kw["tags"])
      [] f = "lang" -> "lang" \in DOMAIN kw => IsStr(kw["lang"])

\* The fields a ValidationError of BlogPost(**kw) names; empty when kw validates.
BlogPostErrors(kw) == {f \in BlogFields : ~BlogFieldOk(f, kw)}

\* The instance BlogPost(**kw) of a kw that validates.
BlogPost(kw) ==
    [title |-> kw["title"],
     slug |-> kw["slug"],
     excerpt |-> Get(kw, "excerpt", None),
     content |-> kw["content"],
     cover_image |-> Get(kw, "cover_image", None),
     tags |-> Get(kw, "tags", List(<<>>)),
     lang |-> Get(kw, "lang", LangEn)]

(****************************** PartnerLead *******************************)

LeadFields == {"venue_name", "contact_email", "city", "notes", "source"}

LeadFieldOk(f, kw) ==
    CASE f = "venue_name" -> "venue_name" \in DOMAIN kw /\ IsStr(kw["venue_name"])
      [] f = "contact_email" -> "contact_email" \in DOMAIN kw /\ EmailField(kw["contact_email"])
      [] f = "city" -> "city" \in DOMAIN kw => OptStr(kw["city"])
      [] f = "notes" -> "notes" \in DOMAIN kw => OptStr(kw["notes"])
      [] f = "source" -> "source" \in DOMAIN kw => IsStr(kw["source"])

PartnerLeadErrors(kw) == {f \in LeadFields : ~LeadFieldOk(f, kw)}

PartnerLead(kw) ==
    [venue_name |-> kw["venue_name"],
     contact_email |-> EmailValue(kw["contact_email"]),
     city |-> Get(kw, "city", None),
     notes |-> Get(kw, "notes", None),
     source |-> Get(kw, "source", SourceWebsite)]

(***************************** ContactMessage *****************************)

ContactFields == {"name", "email", "message", "topic"}

ContactFieldOk(f, kw) ==
    CASE f = "name" -> "name" \in DOMAIN kw /\ IsStr(kw["name"])
      [] f = "email" -> "email" \in DOMAIN kw /\ EmailField(kw["email"])
      [] f = "message" -> "message" \in DOMAIN kw /\ IsStr(kw["message"])
      [] f = "topic" -> "topic" \in DOMAIN kw => OptStr(kw["topic"])

ContactMessageErrors(kw) == {f \in ContactFields : ~ContactFieldOk(f, kw)}

ContactMessage(kw) ==
    [name |-> kw["name"],
     email |-> EmailValue(kw["email"]),
     message |-> kw["message"],
     topic |-> Get(kw, "topic", None)]

(*********************** The database module (adapter) *********************)

Collections == {"blogpost", "partnerlead", "contactmessage"}

TotalDocs == Len(store["blogpost"]) + Len(store["partnerlead"]) + Len(store["contactmessage"])

\* What a call into the store does: it returns, or raises with a message.
NoFault == [t |-> "ok"]

Raise(m) == [t |-> "raise", msg |-> m]

\* create_document fails when there is no connection or the write is rejected.
CreateDocumentRaises(fault) == db = None \/ fault.t = "raise"

\* The store after create_document(coll, data) has written.
CreateDocumentStore(coll, data) == [store EXCEPT ![coll] = Append(@, data)]

\* The identifier create_document returns: fresh, as the store only grows.
CreateDocumentId == TotalDocs + 1

\* Equality filter: every filter key is a key of the document, with that value.
Matches(d, flt) == \A k \in DOMAIN flt : k \in DOMAIN d /\ d[k] = flt[k]

\* get_documents(coll, flt, limit): empty without a store, else the first
\* `limit` matching documents in store order.
GetDocuments(coll, flt, limit) ==
    IF db = None THEN <<>>
    ELSE Take(SelectSeq(store[coll], LAMBDA d : Matches(d, flt)), limit)

(***************************** GET / and /api/hello ***********************)

read_root ==
    /\ req' = [kind |-> "read_root"]
    /\ resp' = [status |-> 200, body |-> [message |-> "Hello from FastAPI Backend!"]]
    /\ calls' = <<>>
    /\ UNCHANGED <<db, env, store>>

hello ==
    /\ req' = [kind |-> "hello"]
    /\ resp' = [status |-> 200, body |-> [message |-> "Hello from the backend API!"]]
    /\ calls' = <<>>
    /\ UNCHANGED <<db, env, store>>

(******************************** GET /test *******************************)

\* A fixed text of the program (its characters do not matter to the model).
Lit(s) == [t |-> "lit", s |-> s]

\* An f-string: a fixed prefix followed by a computed string.
Fmt(prefix, arg) == [t |-> "fmt", prefix |-> prefix, arg |-> arg]

\* The value of db.name: the name of the database the process is connected to.
DbName == Lit("appdb")

\* The response dict test_database starts from.
TestResponse0 ==
    [backend |-> Lit("Running"),
     database |-> Lit("Not Available"),
     database_url |-> None,
     database_name |-> None,
     connection_status |-> Lit("Not Connected"),
     collections |-> <<>>]

\* The response dict when the try block is left, normally or through a handler.
TestTryBlock(nameAttr, listing) ==
    IF db # None THEN
        LET a == [TestResponse0 EXCEPT !.database = Lit("Available"),
                                       !.database_url = Lit("Configured")]
        IN  IF nameAttr.t = "raise" THEN
                [a EXCEPT !.database = Fmt("Error: ", Take(nameAttr.msg, ErrCut))]
            ELSE
                LET b == [a EXCEPT !.database_name =
                                       IF nameAttr.t = "value" THEN DbName ELSE Lit("Connected"),
                                   !.connection_status = Lit("Connected")]
                IN  IF listing.t = "raise" THEN
                        [b EXCEPT !.database =
                                      Fmt("Connected but Error: ", Take(listing.msg, ErrCut))]
                    ELSE
                        [b EXCEPT !.collections = Take(listing.names, CollCut),
                                  !.database = Lit("Connected & Working")]
    ELSE [TestResponse0 EXCEPT !.database = Lit("Available but not initialized")]

\* The two assignments after the try block.  The mutant leaves database_name
\* as the try block set it.
TestEnvFlagsUrlOnly(r) ==
    [r EXCEPT !.database_url = IF env.url THEN Lit("Set") ELSE Lit("Not Set")]

TestEnvFlags(r) ==
    [r EXCEPT !.database_url = IF env.url THEN Lit("Set") ELSE Lit("Not Set"),
              !.database_name = IF env.name THEN Lit("Set") ELSE Lit("Not Set")]

\* nameAttr: what hasattr(db, 'name') / db.name do; listing: what
\* db.list_collection_names() does.  The mutant has no outer try: an exception
\* from the attribute access leaves the handler.
test_database_no_outer_try(nameAttr, listing) ==
    /\ req' = [kind |-> "test_database", nameAttr |-> nameAttr, listing |-> listing]
    /\ resp' = IF db # None /\ nameAttr.t = "raise"
               THEN [status |-> 500, detail |-> Lit("Internal Server Error")]
               ELSE [status |-> 200, body |-> TestEnvFlags(TestTryBlock(nameAttr, listing))]
    /\ calls' = <<>>
    /\ UNCHANGED <<db, env, store>>

test_database(nameAttr, listing) ==
    /\ req' = [kind |-> "test_database", nameAttr |-> nameAttr, listing |-> listing]
    /\ resp' = [status |-> 200, body |-> TestEnvFlags(TestTryBlock(nameAttr, listing))]
    /\ calls' = <<>>
    /\ UNCHANGED <<db, env, store>>

(****************************** GET /api/blog *****************************)

\* The keyword arguments the listing builds from a stored document d.  The
\* mutant never reads the stored lang.
DocKwargsDefaultLang(d) ==
    [title |-> Get(d, "title", Str(<<>>)),
     slug |-> Get(d, "slug", Str(<<>>)),
     excerpt |-> Get(d, "excerpt", None),
     content |-> Get(d, "content", Str(<<>>)),
     cover_image |-> Get(d, "cover_image", None),
     tags |-> Get(d, "tags", List(<<>>)),
     lang |-> LangEn]

DocKwargs(d) ==
    [title |-> Get(d, "title", Str(<<>>)),
     slug |-> Get(d, "slug", Str(<<>>)),
     excerpt |-> Get(d, "excerpt", None),
     content |-> Get(d, "content", Str(<<>>)),
     cover_image |-> Get(d, "cover_image", None),
     tags |-> Get(d, "tags", List(<<>>)),
     lang |-> Get(d, "lang", LangEn)]

\* The loop over docs: append BlogPost(**kwargs), or continue when it raises.
\* The mutant leaves the loop at the first document that raises.
RECURSIVE ResultsBreak(_)
ResultsBreak(docs) ==
    IF docs = <<>> THEN <<>>
    ELSE LET kw == DocKwargs(Head(docs)) IN
         IF BlogPostErrors(kw) = {}
         THEN <<BlogPost(kw)>> \o ResultsBreak(Tail(docs))
         ELSE <<>>

RECURSIVE Results(_)
Results(docs) ==
    IF docs = <<>> THEN <<>>
    ELSE LET kw == DocKwargs(Head(docs)) IN
         IF BlogPostErrors(kw) = {}
         THEN <<BlogPost(kw)>> \o Results(Tail(docs))
         ELSE Results(Tail(docs))

\* The filter built from the lang query parameter.  The mutant builds none.
LangFilterEmpty(lang) == EmptyDict

LangFilter(lang) == IF Truthy(lang) THEN [lang |-> lang] ELSE EmptyDict

\* The mutant has no early return for db is None.
list_blog_posts_unchecked(q, fault) ==
    LET limit == Get(q, "limit", DefaultLimit)
        lang == Get(q, "lang", None)
        flt == LangFilter(lang)
    IN
    /\ req' = [kind |-> "list_blog_posts", query |-> q, fault |-> fault]
    /\ calls' = <<[op |-> "get_documents", coll |-> "blogpost",
                   flt |-> flt, limit |-> limit]>>
    /\ IF fault.t = "raise"
       THEN resp' = [status |-> 500, detail |-> Lit("Internal Server Error")]
       ELSE resp' = [status |-> 200,
                     body |-> Results(GetDocuments("blogpost", flt, limit))]
    /\ UNCHANGED <<db, env, store>>

\* q: the query string (keys limit, lang, both optional); fault: what the
\* store does when queried.  An exception out of get_documents is not caught
\* by the handler and becomes the framework's 500.
list_blog_posts(q, fault) ==
    LET limit == Get(q, "limit", DefaultLimit)
        lang == Get(q, "lang", None)
        flt == LangFilter(lang)
    IN
    /\ req' = [kind |-> "list_blog_posts", query |-> q, fault |-> fault]
    /\ IF db = None THEN
           /\ resp' = [status |-> 200, body |-> <<>>]
           /\ calls' = <<>>
       ELSE
           /\ calls' = <<[op |-> "get_documents", coll |-> "blogpost",
                          flt |-> flt, limit |-> limit]>>
           /\ IF fault.t = "raise"
              THEN resp' = [status |-> 500, detail |-> Lit("Internal Server Error")]
              ELSE resp' = [status |-> 200,
                            body |-> Results(GetDocuments("blogpost", flt, limit))]
    /\ UNCHANGED <<db, env, store>>

(****************************** POST handlers *****************************)

\* except Exception as e: raise HTTPException(status_code=500, detail=str(e)).
\* The mutant cuts the message as the diagnostics endpoint does.
StoreErrorResponseCut(fault) == [status |-> 500, detail |-> Take(fault.msg, ErrCut)]

StoreErrorResponse(fault) == [status |-> 500, detail |-> fault.msg]

\* The body is validated against the parameter's model before the handler
\* runs; a body that fails is answered 422 and the handler is not entered.
\* fault: what the store does when written to.
create_blog_post(payload, fault) ==
    /\ req' = [kind |-> "create_blog_post", payload |-> payload, fault |-> fault]
    /\ IF BlogPostErrors(payload) # {} THEN
           /\ resp' = [status |-> 422, detail |-> BlogPostErrors(payload)]
           /\ calls' = <<>>
           /\ store' = store
       ELSE
           LET post == BlogPost(payload) IN
           /\ db = None => fault.t = "raise"
           /\ calls' = <<[op |-> "create_document", coll |-> "blogpost", data |-> post]>>
           /\ IF CreateDocumentRaises(fault) THEN
                  /\ resp' = StoreErrorResponse(fault)
                  /\ store' = store
              ELSE
                  /\ resp' = [status |-> 201, body |-> [id |-> CreateDocumentId, ok |-> TRUE]]
                  /\ store' = CreateDocumentStore("blogpost", post)
    /\ UNCHANGED <<db, env>>

create_partner_lead(payload, fault) ==
    /\ req' = [kind |-> "create_partner_lead", payload |-> payload, fault |-> fault]
    /\ IF PartnerLeadErrors(payload) # {} THEN
           /\ resp' = [status |-> 422, detail |-> PartnerLeadErrors(payload)]
           /\ calls' = <<>>
           /\ store' = store
       ELSE
           LET lead == PartnerLead(payload) IN
           /\ db = None => fault.t = "raise"
           /\ calls' = <<[op |-> "create_document", coll |-> "partnerlead", data |-> lead]>>
           /\ IF CreateDocumentRaises(fault) THEN
                  /\ resp' = StoreErrorResponse(fault)
                  /\ store' = store
              ELSE
                  /\ resp' = [status |-> 201, body |-> [id |-> CreateDocumentId, ok |-> TRUE]]
                  /\ store' = CreateDocumentStore("partnerlead", lead)
    /\ UNCHANGED <<db, env>>

create_contact_message(payload, fault) ==
    /\ req' = [kind |-> "create_contact_message", payload |-> payload, fault |-> fault]
    /\ IF ContactMessageErrors(payload) # {} THEN
           /\ resp' = [status |-> 422, detail |-> ContactMessageErrors(payload)]
           /\ calls' = <<>>
           /\ store' = store
       ELSE
           LET msg == ContactMessage(payload) IN
           /\ db = None => fault.t = "raise"
           /\ calls' = <<[op |-> "create_document", coll |-> "contactmessage", data |-> msg]>>
           /\ IF CreateDocumentRaises(fault) THEN
                  /\ resp' = StoreErrorResponse(fault)
                  /\ store' = store
              ELSE
                  /\ resp' = [status |-> 201, body |-> [id |-> CreateDocumentId, ok |-> TRUE]]
                  /\ store' = CreateDocumentStore("contactmessage", msg)
    /\ UNCHANGED <<db, env>>

(********************************* Inputs *********************************)

MaxSeed == 2

MaxDocs == 2

MaxColls == 12

LongMsg == 120

MaxPosts == DefaultLimit + 1

\* d with d[k] = v, and d without key k.
With(d, k, v) == [x \in DOMAIN d \cup {k} |-> IF x = k THEN v ELSE d[x]]

Without(d, k) == [x \in DOMAIN d \ {k} |-> d[x]]

\* A body with only the required fields, and one with every field.
Post1 ==
    [title |-> Str(<<"h", "i">>), slug |-> Str(<<"h", "i">>), content |-> Str(<<"c">>)]

Post2 ==
    [title |-> Str(<<"m", "o", "i">>), slug |-> Str(<<"m">>), excerpt |-> Str(<<"x">>),
     content |-> Str(<<"c", "c">>), cover_image |-> Str(<<"u">>),
     tags |-> List(<<Str(<<"a">>), Str(<<"b">>)>>), lang |-> LangFi]

PostEmpty == [title |-> Str(<<>>), slug |-> Str(<<>>), content |-> Str(<<>>)]

BlogPayloads ==
    {Post1, Post2, PostEmpty,
     With(Post1, "title", Str(Rep("t", TitleMax))),
     With(Post1, "title", Str(Rep("t", TitleMax + 1))),
     With(Post1, "slug", Str(Rep("s", SlugMax + 1))),
     With(Post2, "excerpt", Str(Rep("x", ExcerptMax + 1))),
     Without(Post1, "title"), Without(Post2, "slug"), Without(Post1, "content"),
     With(Post1, "title", None), With(Post2, "tags", None), With(Post1, "lang", None),
     EmptyDict}

EmailGood == Str(<<"a", "@", "b", ".", "c", "o", "m">>)

EmailUpper == Str(<<"a", "@", "B", ".", "c", "o", "m">>)

EmailBad == Str(<<"n", "o", "t", "-", "a", "n", "-", "e", "m", "a", "i", "l">>)

EmailNoDot == Str(<<"a", "@", "b">>)

Lead1 == [venue_name |-> Str(<<"v">>), contact_email |-> EmailGood]

LeadPayloads ==
    {Lead1,
     [venue_name |-> Str(<<"v">>), contact_email |-> EmailUpper, city |-> Str(<<"o">>),
      notes |-> None, source |-> Str(<<"a", "d">>)],
     With(Lead1, "venue_name", Str(<<>>)),
     With(Lead1, "contact_email", EmailBad),
     With(Lead1, "contact_email", EmailNoDot),
     With(Lead1, "contact_email", None),
     Without(Lead1, "venue_name"), Without(Lead1, "contact_email")}

Contact1 == [name |-> Str(<<"n">>), email |-> EmailGood, message |-> Str(<<"m">>)]

ContactPayloads ==
    {Contact1,
     [name |-> Str(<<>>), email |-> EmailGood, message |-> Str(<<>>), topic |-> Str(<<"q">>)],
     With(Contact1, "email", EmailBad),
     With(Contact1, "email", Str(<<>>)),
     Without(Contact1, "name"), Without(Contact1, "message"), Without(Contact1, "email"),
     With(Contact1, "message", None)}

\* Error messages of the store: shorter than, as long as and longer than the cut.
Msgs == {Rep("e", n) : n \in {0, ErrCut, ErrCut + 1, LongMsg}}

Faults == {NoFault} \cup {Raise(m) : m \in Msgs}

WriteFaults == {NoFault, Raise(Rep("e", ErrCut)), Raise(Rep("e", LongMsg))}

ReadFaults == {NoFault, Raise(Rep("e", ErrCut))}

NameAttrs == {[t |-> "absent"], [t |-> "value"]} \cup {Raise(m) : m \in Msgs}

\* list_collection_names returns n names (each modelled by its index) or raises.
Listings == {[t |-> "ok", names |-> [i \in 1..n |-> i]] : n \in 0..MaxColls}
                \cup {Raise(m) : m \in Msgs}

Queries ==
    {EmptyDict, [limit |-> 1], [lang |-> LangFi], [lang |-> LangEn], [lang |-> Str(<<>>)],
     [limit |-> 1, lang |-> LangFi], [limit |-> 1, lang |-> LangEn]}

\* Documents the blogpost collection may already hold: written by this
\* program, or by anything else that writes to the database.
SeedDocs ==
    {BlogPost(Post1), BlogPost(Post2), Post1,
     Without(BlogPost(Post2), "tags"),
     Without(BlogPost(Post2), "lang"),
     [lang |-> LangFi],
     With(BlogPost(Post2), "title", Str(Rep("t", TitleMax + 1))),
     With(BlogPost(Post2), "slug", Str(Rep("s", SlugMax + 1))),
     With(BlogPost(Post1), "excerpt", Str(Rep("x", ExcerptMax + 1))),
     With(BlogPost(Post2), "title", None),
     With(BlogPost(Post1), "tags", None)}

SeedSeqs == UNION {[1..n -> SeedDocs] : n \in 0..MaxSeed}

(***************************** Specifications *****************************)

\* The process after start-up: db and the environment are fixed from here on;
\* without a store handle there is no store content to speak of.
Init ==
    /\ db \in {None, Handle}
    /\ env \in [url : BOOLEAN, name : BOOLEAN]
    /\ \E seed \in SeedSeqs :
           /\ db = None => seed = <<>>
           /\ store = [c \in Collections |-> IF c = "blogpost" THEN seed ELSE <<>>]
    /\ req = [kind |-> "none"]
    /\ resp = [status |-> 0]
    /\ calls = <<>>

Diagnose ==
    \E n \in NameAttrs, l \in Listings :
        /\ db = None => (n = [t |-> "absent"] /\ l = Raise(<<>>))
        /\ n.t = "raise" => l = Raise(<<>>)
        /\ test_database(n, l)

Read == \E q \in Queries, f \in ReadFaults : (db = None => f = NoFault) /\ list_blog_posts(q, f)

WriteBlog ==
    \E p \in BlogPayloads, f \in WriteFaults :
        /\ BlogPostErrors(p) # {} => f = NoFault
        /\ create_blog_post(p, f)
        /\ TotalDocs' <= MaxDocs

WriteLead ==
    \E p \in LeadPayloads, f \in WriteFaults :
        /\ PartnerLeadErrors(p) # {} => f = NoFault
        /\ create_partner_lead(p, f)
        /\ TotalDocs' <= MaxDocs

WriteContact ==
    \E p \in ContactPayloads, f \in WriteFaults :
        /\ ContactMessageErrors(p) # {} => f = NoFault
        /\ create_contact_message(p, f)
        /\ TotalDocs' <= MaxDocs

Write == WriteBlog \/ WriteLead \/ WriteContact

Next == read_root \/ hello \/ Diagnose \/ Read \/ Write

Spec == Init /\ [][Next]_vars

\* The diagnostics endpoint alone.
InitDiag == Init /\ store["blogpost"] = <<>>

SpecDiag == InitDiag /\ [][Diagnose]_vars

\* The listing endpoint over every seeded store.  The handlers below never
\* read the environment, so it is fixed.
InitRead == Init /\ env = [url |-> TRUE, name |-> TRUE]

SpecRead == InitRead /\ [][Read]_vars

\* The three POST endpoints, from an empty store.
InitWrite == InitRead /\ store["blogpost"] = <<>>

SpecWrite == InitWrite /\ [][Write]_vars

\* POST /api/blog and GET /api/blog with no query, past the default limit.
InitRT == InitWrite /\ db = Handle

PostValid ==
    \E p \in {Post1, Post2} :
        create_blog_post(p, NoFault) /\ Len(store'["blogpost"]) <= MaxPosts

ListDefault == list_blog_posts(EmptyDict, NoFault)

NextRT == PostValid \/ ListDefault

SpecRT == InitRT /\ [][NextRT]_vars

(********************************* Claims *********************************)

Creates == {"create_blog_post", "create_partner_lead", "create_contact_message"}

\* The validation errors of a POST request's body, by endpoint.
ErrorsOf(r) ==
    CASE r.kind = "create_blog_post" -> BlogPostErrors(r.payload)
      [] r.kind = "create_partner_lead" -> PartnerLeadErrors(r.payload)
      [] r.kind = "create_contact_message" -> ContactMessageErrors(r.payload)

CollOf(r) ==
    CASE r.kind = "create_blog_post" -> "blogpost"
      [] r.kind = "create_partner_lead" -> "partnerlead"
      [] r.kind = "create_contact_message" -> "contactmessage"

\* ---- C1 ----

\* The seven fields of a valid body P, the omitted ones at the schema defaults.
C1_Record(P) ==
    [title |-> P["title"],
     slug |-> P["slug"],
     excerpt |-> IF "excerpt" \in DOMAIN P THEN P["excerpt"] ELSE None,
     content |-> P["content"],
     cover_image |-> IF "cover_image" \in DOMAIN P THEN P["cover_image"] ELSE None,
     tags |-> IF "tags" \in DOMAIN P THEN P["tags"] ELSE List(<<>>),
     lang |-> IF "lang" \in DOMAIN P THEN P["lang"] ELSE LangEn]

\* This step is GET /api/blog with no query, and the request before it was a
\* successful POST /api/blog.
C1_PostThenList ==
    /\ req.kind = "create_blog_post" /\ resp.status = 201
    /\ req'.kind = "list_blog_posts" /\ req'.query = EmptyDict /\ req'.fault = NoFault

C1_Returned ==
    /\ resp'.status = 200
    /\ \E i \in 1..Len(resp'.body) : resp'.body[i] = C1_Record(req.payload)

\* C1 as claimed: a successful POST /api/blog of P followed by GET /api/blog
\* returns a record with P's fields, whatever was posted before.
C1_RoundTripAlways == [][C1_PostThenList => C1_Returned]_vars

\* C1 as amended: a successful POST /api/blog of P followed by GET /api/blog
\* returns a record with P's fields when the blogpost collection then holds at
\* most DefaultLimit documents.
C1_RoundTripWithinLimit ==
    [][(C1_PostThenList /\ Len(store["blogpost"]) <= DefaultLimit) => C1_Returned]_vars

\* The listing right at the limit: the last record returned is the last stored.
C1_Witness ==
    /\ req.kind = "list_blog_posts" /\ req.query = EmptyDict
    /\ resp.status = 200
    /\ Len(store["blogpost"]) = DefaultLimit
    /\ Len(resp.body) = DefaultLimit
    /\ resp.body[DefaultLimit] = C1_Record(Post2)
    /\ store["blogpost"][DefaultLimit] = C1_Record(Post2)

\* ---- C2 ----

\* The bodies C2 names, and every other body the schema rejects.
C2_Invalid(r) ==
    \/ /\ r.kind = "create_blog_post"
       /\ "title" \in DOMAIN r.payload
       /\ r.payload["title"].t = "str"
       /\ Len(r.payload["title"].s) > TitleMax
    \/ /\ r.kind = "create_partner_lead"
       /\ "contact_email" \in DOMAIN r.payload
       /\ r.payload["contact_email"] = EmailBad
    \/ /\ r.kind = "create_contact_message"
       /\ "email" \in DOMAIN r.payload
       /\ r.payload["email"] = EmailBad
    \/ ErrorsOf(r) # {}

\* C2: a POST whose body fails validation is answered 422 naming the fields,
\* makes no adapter call and leaves every collection of the store as it was.
C2_InvalidBodyNoWrite ==
    [][(req'.kind \in Creates /\ C2_Invalid(req'))
          => /\ resp'.status = 422
             /\ resp'.detail # {}
             /\ calls' = <<>>
             /\ store' = store]_vars

\* "not-an-email" was refused while the store already held a document.
C2_Witness ==
    /\ req.kind = "create_partner_lead"
    /\ "contact_email" \in DOMAIN req.payload
    /\ req.payload["contact_email"] = EmailBad
    /\ resp.status = 422
    /\ resp.detail = {"contact_email"}
    /\ TotalDocs > 0

\* ---- C3 ----

\* C3: GET /test answers 200 with exactly the six keys of the status record
\* and at most CollCut collection names, whatever the store does.
C3_DiagnosticsNeverFails ==
    req.kind = "test_database"
        => /\ resp.status = 200
           /\ DOMAIN resp = {"status", "body"}
           /\ DOMAIN resp.body = {"backend", "database", "database_url", "database_name",
                                  "connection_status", "collections"}
           /\ Len(resp.body.collections) <= CollCut

\* The store raised on the attribute access, with a message longer than the
\* cut, and the endpoint reported it as data.
C3_Witness ==
    /\ req.kind = "test_database"
    /\ db # None
    /\ req.nameAttr.t = "raise"
    /\ Len(req.nameAttr.msg) > ErrCut
    /\ resp.status = 200
    /\ resp.body.database = Fmt("Error: ", Rep("e", ErrCut))
    /\ resp.body.collections = <<>>

\* ---- C10 ----

C10_Flag(set) == IF set THEN Lit("Set") ELSE Lit("Not Set")

\* C10: database_url and database_name of the diagnostics record are the
\* set / not-set flags of the two environment variables, and no field of the
\* record is the database's name.
C10_OnlyPresenceReported ==
    req.kind = "test_database" /\ resp.status = 200
        => /\ resp.body.database_url = C10_Flag(env.url)
           /\ resp.body.database_name = C10_Flag(env.name)
           /\ \A k \in {"backend", "database", "database_url", "database_name",
                        "connection_status"} : resp.body[k] # DbName

\* The store has a name, DATABASE_NAME is unset, and the record says not set.
C10_Witness ==
    /\ req.kind = "test_database"
    /\ db # None
    /\ req.nameAttr.t = "value"
    /\ req.listing.t = "ok"
    /\ ~env.name
    /\ resp.body.database_name = Lit("Not Set")

\* ---- The listing, stated over the store ----

Docs == store["blogpost"]

QLang == IF "lang" \in DOMAIN req.query THEN req.query["lang"] ELSE None

QLimit == IF "limit" \in DOMAIN req.query THEN req.query["limit"] ELSE DefaultLimit

\* GET /api/blog was answered with the store present and answering.
ListedOk == req.kind = "list_blog_posts" /\ db # None /\ req.fault = NoFault

\* Positions of the documents matching the lang filter; of those the store
\* returns (the first QLimit); of those that can be rebuilt as a BlogPost.
MatchIdx ==
    {i \in 1..Len(Docs) :
        Truthy(QLang) => ("lang" \in DOMAIN Docs[i] /\ Docs[i]["lang"] = QLang)}

FoundIdx == {i \in MatchIdx : Cardinality({j \in MatchIdx : j <= i}) <= QLimit}

KeptIdx == {i \in FoundIdx : BlogPostErrors(DocKwargs(Docs[i])) = {}}

Rank(i) == Cardinality({j \in KeptIdx : j <= i})

\* Document d with the field defaults for what it lacks.
WithDefaults(d) ==
    [title |-> IF "title" \in DOMAIN d THEN d["title"] ELSE Str(<<>>),
     slug |-> IF "slug" \in DOMAIN d THEN d["slug"] ELSE Str(<<>>),
     excerpt |-> IF "excerpt" \in DOMAIN d THEN d["excerpt"] ELSE None,
     content |-> IF "content" \in DOMAIN d THEN d["content"] ELSE Str(<<>>),
     cover_image |-> IF "cover_image" \in DOMAIN d THEN d["cover_image"] ELSE None,
     tags |-> IF "tags" \in DOMAIN d THEN d["tags"] ELSE List(<<>>),
     lang |-> IF "lang" \in DOMAIN d THEN d["lang"] ELSE LangEn]

\* A string field of d is longer than the cap the schema declares for it.
Oversized(d) ==
    \/ "title" \in DOMAIN d /\ d["title"].t = "str" /\ Len(d["title"].s) > TitleMax
    \/ "slug" \in DOMAIN d /\ d["slug"].t = "str" /\ Len(d["slug"].s) > SlugMax
    \/ "excerpt" \in DOMAIN d /\ d["excerpt"].t = "str" /\ Len(d["excerpt"].s) > ExcerptMax

\* ---- C4 ----

\* C4: whatever the blogpost collection holds, GET /api/blog answers 200 with
\* exactly the returned documents that can be rebuilt, in store order, each
\* with the defaults for its missing fields (tags = [], lang = "en").
C4_ListingSkipsBadDocuments ==
    ListedOk
        => /\ resp.status = 200
           /\ Len(resp.body) = Cardinality(KeptIdx)
           /\ \A i \in KeptIdx :
                  /\ resp.body[Rank(i)] = WithDefaults(Docs[i])
                  /\ "tags" \notin DOMAIN Docs[i] => resp.body[Rank(i)].tags = List(<<>>)
                  /\ "lang" \notin DOMAIN Docs[i] => resp.body[Rank(i)].lang = LangEn

\* A document that cannot be rebuilt is followed by one without tags, which
\* is returned.
C4_Witness ==
    /\ ListedOk
    /\ resp.status = 200
    /\ \E i \in FoundIdx \ KeptIdx, j \in KeptIdx :
           /\ i < j
           /\ "tags" \notin DOMAIN Docs[j]
           /\ resp.body[Rank(j)].tags = List(<<>>)

\* ---- C5 ----

\* C5 as claimed: a stored document with an oversized title, slug or excerpt
\* that the store returns appears in the result of GET /api/blog.
C5_OversizedListed ==
    ListedOk
        => \A i \in FoundIdx :
               Oversized(Docs[i])
                   => \E k \in 1..Len(resp.body) : resp.body[k] = WithDefaults(Docs[i])

\* C5 as amended: the caps are enforced on read as on write.  No record of
\* the result is oversized, so a stored document with an oversized title, slug
\* or excerpt is left out of it, and the same document is rejected as a body
\* of POST /api/blog.
C5_OversizedDropped ==
    ListedOk
        => /\ resp.status = 200
           /\ \A k \in 1..Len(resp.body) : ~Oversized(resp.body[k])
           /\ \A i \in FoundIdx :
                  Oversized(Docs[i])
                      => /\ i \notin KeptIdx
                         /\ BlogPostErrors(Docs[i]) \cap {"title", "slug", "excerpt"} # {}

\* An oversized document was returned by the store and others were listed.
C5_Witness ==
    /\ ListedOk
    /\ resp.status = 200
    /\ Len(resp.body) >= 1
    /\ \E i \in FoundIdx : Oversized(Docs[i]) /\ i < Len(Docs)

\* ---- C8 ----

\* C8: with a non-empty lang = L, every record GET /api/blog returns has
\* lang = L, and there are no more of them than stored documents whose lang
\* field is L: a document without a lang field is not returned.
C8_LangFilter ==
    req.kind = "list_blog_posts" /\ Truthy(QLang) /\ resp.status = 200
        => /\ \A k \in 1..Len(resp.body) : resp.body[k].lang = QLang
           /\ Len(resp.body) <=
                  Cardinality({i \in 1..Len(Docs) :
                                  "lang" \in DOMAIN Docs[i] /\ Docs[i]["lang"] = QLang})

\* lang = "fi" was asked for, of a store holding a document without a lang
\* field, and something was returned.
C8_Witness ==
    /\ req.kind = "list_blog_posts"
    /\ QLang = LangFi
    /\ resp.status = 200
    /\ Len(resp.body) >= 1
    /\ \E i \in 1..Len(Docs) : "lang" \notin DOMAIN Docs[i]

\* ---- C9 ----

\* C9: without a store handle GET /api/blog answers 200 with an empty
\* sequence for every limit and lang, and makes no adapter call.
C9_NoStoreEmptyList ==
    req.kind = "list_blog_posts" /\ db = None
        => /\ resp = [status |-> 200, body |-> <<>>]
           /\ calls = <<>>

C9_Witness ==
    /\ req.kind = "list_blog_posts"
    /\ db = None
    /\ DOMAIN req.query = {"limit", "lang"}
    /\ resp.status = 200
    /\ resp.body = <<>>

\* ---- C6 ----

Required(r) ==
    CASE r.kind = "create_blog_post" -> {"title", "slug", "content"}
      [] r.kind = "create_partner_lead" -> {"venue_name"}
      [] r.kind = "create_contact_message" -> {"name", "message"}

C6_Absent(r) == \E f \in Required(r) : f \notin DOMAIN r.payload

C6_Empty(r) == \E f \in Required(r) : f \in DOMAIN r.payload /\ r.payload[f] = Str(<<>>)

\* Every field of the body is a short string, and an email field a valid one.
C6_OtherwiseValid(r) ==
    /\ ~C6_Absent(r)
    /\ \A k \in DOMAIN r.payload :
           /\ r.payload[k].t = "str"
           /\ Len(r.payload[k].s) <= TitleMax
           /\ k \in {"contact_email", "email"} => r.payload[k] = EmailGood
    /\ r.kind = "create_partner_lead" => "contact_email" \in DOMAIN r.payload
    /\ r.kind = "create_contact_message" => "email" \in DOMAIN r.payload

\* C6 as claimed: a POST with a required string field absent or empty is
\* answered 422 and inserts nothing.
C6_AbsentOrEmptyRejected ==
    [][(req'.kind \in Creates /\ (C6_Absent(req') \/ C6_Empty(req')))
          => (resp'.status = 422 /\ store' = store)]_vars

\* C6 as amended: a POST with a required string field absent is answered 422
\* and inserts nothing; an empty string counts as present, so a body that is
\* otherwise valid is answered 201 and inserted when the store accepts it.
C6_AbsentRejectedEmptyAccepted ==
    [][req'.kind \in Creates
          => /\ C6_Absent(req')
                 => /\ resp'.status = 422
                    /\ resp'.detail \cap Required(req') # {}
                    /\ calls' = <<>>
                    /\ store' = store
             /\ (C6_Empty(req') /\ C6_OtherwiseValid(req')
                     /\ db # None /\ req'.fault = NoFault)
                 => /\ resp'.status = 201
                    /\ Len(store'[CollOf(req')]) = Len(store[CollOf(req')]) + 1
                    /\ \E f \in Required(req') :
                           store'[CollOf(req')][Len(store'[CollOf(req')])][f] = Str(<<>>)]_vars

\* A body whose title, slug and content are empty strings was inserted.
C6_Witness ==
    /\ req.kind = "create_blog_post"
    /\ req.payload = PostEmpty
    /\ resp.status = 201
    /\ Len(store["blogpost"]) >= 1
    /\ store["blogpost"][Len(store["blogpost"])].title = Str(<<>>)

\* ---- C7 ----

\* A POST with a valid body whose write the store refused.
C7_WriteFailed ==
    /\ req.kind \in Creates
    /\ ErrorsOf(req) = {}
    /\ (db = None \/ req.fault.t = "raise")

\* C7 as claimed: the response is 500 and its detail is cut to a bounded
\* length (the ErrCut characters the program cuts error messages to).
C7_DetailTruncated ==
    C7_WriteFailed
        => /\ resp.status = 500
           /\ Len(resp.detail) <= ErrCut

\* C7 as amended: the response is 500, never 201 or an {id, ok} body, and its
\* detail is the store's error message in full, however long.
C7_DetailIsFullMessage ==
    C7_WriteFailed
        => /\ resp.status = 500
           /\ DOMAIN resp = {"status", "detail"}
           /\ resp.detail = req.fault.msg
           /\ Len(resp.detail) = Len(req.fault.msg)

\* The store refused a valid body with a message longer than the cut.
C7_Witness ==
    /\ C7_WriteFailed
    /\ req.kind = "create_contact_message"
    /\ Len(req.fault.msg) > ErrCut
    /\ resp.status = 500
    /\ Len(resp.detail) > ErrCut

====
